---- MODULE Spec2Model ----
(***************************************************************************)
(* Model of the routing engine of RedesPruebas: the shortest-path table    *)
(* (dijkstra_rt.py), the packet helpers (packets.py), the identity map     *)
(* (id_map.py), the link-state engines (router_lsr_redis.py,              *)
(* interactive_lsr_router.py) and the flooding engine                      *)
(* (router_flooding_redis.py) over a publish/subscribe transport           *)
(* (redis_transport.py), and the shutdown of a node.                       *)
(***************************************************************************)
EXTENDS Integers, Sequences, FiniteSets, TLC

\* ------------------------------------------------------------------------
\* Bounds
\* ------------------------------------------------------------------------
MaxCost == 2
MaxEdges == 3
MaxInbox == 2
MaxUuid == 2
MaxEvents == 3
MaxLsaTicks == 3
MaxHelloTicks == 1
MaxSends == 1
MaxInject == 1
MaxFailures == 1
MaxHops == 2
MaxPending == 2
MaxForged == 2

\* ------------------------------------------------------------------------
\* Node identities
\* ------------------------------------------------------------------------
Nodes == {"A", "B", "C", "D"}

\* str comparison used by the heap when two tentative distances tie
NodeOrd == [n \in Nodes |-> CASE n = "A" -> 1 [] n = "B" -> 2 [] n = "C" -> 3 [] OTHER -> 4]

\* math.inf
Inf == 1000000

\* prev[n] = None
None == "None"

VARIABLES
    graph,            \* Graph: node -> (neighbor -> cost), rows only for some nodes
    source,           \* argument of routing_table_for
    table,            \* value returned by routing_table_for
    phase,            \* "load" while a graph is read, "done" once its table is
                      \* built, "net" while routers run
    algorithm,        \* InteractiveRouter.algorithm: the engine every node runs
    neighbors,        \* self.neighbors, a list of node ids, per router
    lsdb,             \* self.lsdb: originator -> advertised neighbor costs
    seen_lsp_ids,     \* self.seen_lsp_ids (link-state engine)
    seen,             \* self.seen (flooding engine)
    routing_table,    \* self.routing_table
    sequence_number,  \* self.sequence_number
    inbox,            \* messages published to a router's channel, not yet handled
    uuid_count,       \* number of uuid4 values a router has drawn
    count,            \* how many timer ticks, sends and foreign packets so far
    last,             \* the last operation: node, packet, publishes it made
    delivered,        \* per router, how often each payload reached the consumer
    processed,        \* per router, the originators whose advertisement it
                      \* handled to the end
    originated,       \* headers.id of every advertisement originated, in order
    stop_event,       \* router._stop (threading.Event)
    transport_stop,   \* RedisTransport._stop
    subscribed,       \* the pubsub subscription is open
    timer,            \* state of the Timer object self._t_hello / self._t_lsp refers to
    timer_pc,         \* where the timer thread of each kind is
    stop_pc,          \* where the call of stop() is
    listen_pc,        \* where RedisTransport._listen_loop is
    pending,          \* messages on the node's channel not yet taken by the loop
    after_stop        \* what happened after stop() returned

dvars == <<graph, source, table, phase>>
nvars == <<algorithm, neighbors, lsdb, seen_lsp_ids, seen, routing_table,
           sequence_number, inbox, uuid_count, count, last, delivered, processed,
           originated>>
svars == <<stop_event, transport_stop, subscribed, timer, timer_pc, stop_pc, listen_pc,
           pending, after_stop>>
vars == <<graph, source, table, phase, algorithm, neighbors, lsdb, seen_lsp_ids, seen,
          routing_table, sequence_number, inbox, uuid_count, count, last, delivered,
          processed, originated, stop_event, transport_stop, subscribed, timer, timer_pc,
          stop_pc, listen_pc, pending, after_stop>>

\* ------------------------------------------------------------------------
\* dijkstra_rt.py
\* ------------------------------------------------------------------------
\* every name that occurs in the graph, as a row or as a neighbor
GraphNodes(g) == DOMAIN g \cup UNION {DOMAIN g[u] : u \in DOMAIN g}

\* graph.get(u, {})
RowOf(g, u) == IF u \in DOMAIN g THEN g[u] ELSE << >>

EdgeCount(g) == LET RECURSIVE Sum(_)
                    Sum(S) == IF S = {} THEN 0
                              ELSE LET u == CHOOSE x \in S : TRUE
                                   IN Cardinality(DOMAIN g[u]) + Sum(S \ {u})
                IN Sum(DOMAIN g)

\* heapq.heappop: smallest (distance, name) tuple
TupleLess(a, b) == \/ a[1] < b[1]
                   \/ a[1] = b[1] /\ NodeOrd[a[2]] < NodeOrd[b[2]]

HeapMin(pq) == CHOOSE a \in pq : \A b \in pq \ {a} : TupleLess(a, b)

\* the test that lets an edge u -> v improve v (line 37)
Improves(nd, dv) == nd < dv

\* the for loop over graph.get(u, {}).items(): every improved neighbor gets
\* the new distance, u as predecessor, and a heap entry
RelaxAll(g, u, d, st) ==
    LET row == RowOf(g, u)
        better == {v \in DOMAIN row : Improves(d + row[v], st.dist[v])}
    IN [dist |-> [n \in DOMAIN st.dist |-> IF n \in better THEN d + row[n] ELSE st.dist[n]],
        prev |-> [n \in DOMAIN st.prev |-> IF n \in better THEN u ELSE st.prev[n]],
        pq   |-> st.pq \cup {<<d + row[v], v>> : v \in better}]

\* the while pq loop
RECURSIVE DijkstraLoop(_, _)
DijkstraLoop(g, st) ==
    IF st.pq = {} THEN st
    ELSE LET top == HeapMin(st.pq)
             d == top[1]
             u == top[2]
             rest == [st EXCEPT !.pq = st.pq \ {top}]
             \* the state after this iteration, computed once
             after == {IF d # st.dist[u] THEN rest ELSE RelaxAll(g, u, d, rest)}
         IN CHOOSE r \in {DijkstraLoop(g, next) : next \in after} : TRUE

\* lines 26-40: a missing key of dist reads as inf (dist.get(v, math.inf)),
\* a missing key of prev as None (prev.get)
ShortestPaths(g, s) ==
    DijkstraLoop(g, [dist |-> [n \in GraphNodes(g) \cup {s} |-> IF n = s THEN 0 ELSE Inf],
                     prev |-> [n \in GraphNodes(g) \cup {s} |-> None],
                     pq   |-> {<<0, s>>}])

\* the walk with an if in place of the while: one step back at most
WalkBack_OneStep(prev, s, hop) ==
    IF prev[hop] # None /\ prev[hop] # s THEN prev[hop] ELSE hop

\* lines 46-49: walk the predecessor chain back from dest
RECURSIVE WalkBack(_, _, _)
WalkBack(prev, s, hop) ==
    IF prev[hop] # None /\ prev[hop] # s THEN WalkBack(prev, s, prev[hop]) ELSE hop

\* the nodes the table loop visits (line 43)
TableDests(g) == DOMAIN g

TableOf(g, s, st) ==
    {[destino |-> dest, next_hop |-> WalkBack(st.prev, s, dest), costo |-> st.dist[dest]] :
        dest \in {n \in TableDests(g) : n # s /\ st.dist[n] # Inf}}

\* dist and prev are computed once, then the table is built from them
routing_table_for(g, s) == UNION {TableOf(g, s, st) : st \in {ShortestPaths(g, s)}}

\* load_topology: one row per key of the topology file, one edge per entry
AddRow(u) ==
    /\ phase = "load"
    /\ u \notin DOMAIN graph
    /\ graph' = graph @@ (u :> << >>)
    /\ UNCHANGED <<source, table, phase>>
    /\ UNCHANGED nvars
    /\ UNCHANGED svars

AddEdge(u, v, w) ==
    /\ phase = "load"
    /\ EdgeCount(graph) < MaxEdges
    /\ v \notin DOMAIN RowOf(graph, u)
    /\ graph' = IF u \in DOMAIN graph
                THEN [graph EXCEPT ![u] = @ @@ (v :> w)]
                ELSE graph @@ (u :> (v :> w))
    /\ UNCHANGED <<source, table, phase>>
    /\ UNCHANGED nvars
    /\ UNCHANGED svars

Compute(s) ==
    /\ phase = "load"
    /\ source' = s
    /\ table' = routing_table_for(graph, s)
    /\ phase' = "done"
    /\ UNCHANGED graph
    /\ UNCHANGED nvars
    /\ UNCHANGED svars

\* the shutdown variables of a run that does not look at shutdown
NoShutdown ==
    /\ stop_event = FALSE
    /\ transport_stop = FALSE
    /\ subscribed = TRUE
    /\ timer = << >>
    /\ timer_pc = << >>
    /\ stop_pc = "none"
    /\ listen_pc = "none"
    /\ pending = 0
    /\ after_stop = {}

InitDijkstra ==
    /\ NoShutdown
    /\ graph = << >>
    /\ source = None
    /\ table = {}
    /\ phase = "load"
    /\ algorithm = "none"
    /\ neighbors = << >>
    /\ lsdb = << >>
    /\ seen_lsp_ids = << >>
    /\ seen = << >>
    /\ routing_table = << >>
    /\ sequence_number = << >>
    /\ inbox = << >>
    /\ uuid_count = << >>
    /\ count = << >>
    /\ last = << >>
    /\ delivered = << >>
    /\ processed = << >>
    /\ originated = << >>

NextDijkstra ==
    \/ \E u \in Nodes : AddRow(u)
    \/ \E u \in Nodes, v \in Nodes, w \in 0..MaxCost : AddEdge(u, v, w)
    \/ \E s \in Nodes : Compute(s)

SpecDijkstra == InitDijkstra /\ [][NextDijkstra]_vars

\* ------------------------------------------------------------------------
\* id_map.py
\* ------------------------------------------------------------------------
\* the names file: node id -> user name
NODES_TO_USER == [n \in Nodes |-> CASE n = "A" -> "ua" [] n = "B" -> "ub"
                                    [] n = "C" -> "uc" [] OTHER -> "ud"]

\* f"sec{SECTION}.grupo{GROUP}.{username}"
mk_channel(username) == CASE username = "ua" -> "sec10.grupo0.ua"
                          [] username = "ub" -> "sec10.grupo0.ub"
                          [] username = "uc" -> "sec10.grupo0.uc"
                          [] OTHER -> "sec10.grupo0.ud"

NODE_TO_CHANNEL == [n \in Nodes |-> mk_channel(NODES_TO_USER[n])]

\* get_channel raises KeyError outside "*" and the names file
KnownNode(node_id) == node_id = "*" \/ node_id \in DOMAIN NODE_TO_CHANNEL

get_channel(node_id) == IF node_id = "*" THEN "*" ELSE NODE_TO_CHANNEL[node_id]

\* channel.split(".")[-1]
LastComponent(channel) == CASE channel = "sec10.grupo0.ua" -> "ua"
                            [] channel = "sec10.grupo0.ub" -> "ub"
                            [] channel = "sec10.grupo0.uc" -> "uc"
                            [] channel = "sec10.grupo0.ud" -> "ud"
                            [] channel = "sec20.grupo1.ua" -> "ua"
                            [] channel = "sec10.grupo0.zz" -> "zz"
                            [] OTHER -> channel

\* channel_to_node that falls back to the first node of the names file
channel_to_node_Default(channel) ==
    LET username == LastComponent(channel)
        hits == {node \in DOMAIN NODES_TO_USER : NODES_TO_USER[node] = username}
    IN IF hits = {} THEN "A"
       ELSE CHOOSE node \in hits : \A m \in hits : NodeOrd[node] <= NodeOrd[m]

channel_to_node(channel) ==
    LET username == LastComponent(channel)
        hits == {node \in DOMAIN NODES_TO_USER : NODES_TO_USER[node] = username}
    IN IF hits = {} THEN ""
       ELSE CHOOSE node \in hits : \A m \in hits : NodeOrd[node] <= NodeOrd[m]

\* ------------------------------------------------------------------------
\* packets.py
\* ------------------------------------------------------------------------
BROADCAST == "*"

\* headers without an "id" key
NoId == [k |-> "none", o |-> "", n |-> 0]

\* str(uuid.uuid4()): the i-th value drawn by the process of node n
Uuid(n, i) == [k |-> "uuid", o |-> n, n |-> i]

\* A packet.  bad is the set of required keys (type, from, to, hops,
\* headers) that are missing or hold a
\* value of the wrong type; headers.shape tells a dict from a list.
\* originator = "" and neighbors = << >> stand for an absent key, which is
\* what packet.get("originator", "") and packet.get("neighbors", {}) read.
make_packet(p_type, from_channel, to_channel, hops, alg, payload) ==
    [type |-> p_type, from |-> from_channel, to |-> to_channel, hops |-> hops,
     headers |-> [shape |-> "dict", alg |-> alg, id |-> NoId],
     payload |-> payload, originator |-> "", neighbors |-> << >>, bad |-> {}]

NoPkt == make_packet("", "", "", 0, "", "")

\* validate_packet without the tests on headers
validate_packet_KeysOnly(pkt) == pkt.bad = {}

validate_packet(pkt) ==
    /\ pkt.bad = {}
    /\ pkt.headers.shape = "dict"
    /\ pkt.headers.alg # ""

HasId(pkt) == pkt.headers.shape = "dict" /\ pkt.headers.id # NoId

\* get_packet_id that derives the missing id from the packet's content
get_packet_id_Stable(pkt, fresh) ==
    IF HasId(pkt) THEN pkt.headers.id ELSE [k |-> "hash", o |-> pkt.payload, n |-> 0]

\* headers.id when there is one, else a value drawn now
get_packet_id(pkt, fresh) == IF HasId(pkt) THEN pkt.headers.id ELSE fresh

\* dec_hops that leaves hops as it is
dec_hops_Keep(pkt) == pkt

dec_hops(pkt) == [pkt EXCEPT !.hops = @ - 1]

\* is_deliver_to_me without the wildcard
is_deliver_to_me_OwnOnly(pkt, my_channel) == pkt.to = my_channel

is_deliver_to_me(pkt, my_channel) == pkt.to = my_channel \/ pkt.to = BROADCAST

\* ------------------------------------------------------------------------
\* redis_transport.py
\* ------------------------------------------------------------------------
\* the nodes on which a router runs; each subscribes to its own channel
Routers == {"A", "B", "C"}

Subscribers(ch) == {r \in Routers : NODE_TO_CHANNEL[r] = ch}

\* publish in order: each message is appended to the queue of the
\* subscriber of its channel; a channel without subscriber loses it.
\* A queued message is kept with the client that published it (via), which
\* the receiver cannot see.
RECURSIVE PublishSeq(_, _, _)
PublishSeq(box, out, via) ==
    IF out = << >> THEN box
    ELSE LET o == Head(out)
         IN PublishSeq([r \in DOMAIN box |->
                           IF r \in Subscribers(o.ch)
                           THEN Append(box[r], [pkt |-> o.pkt, via |-> via])
                           ELSE box[r]],
                       Tail(out), via)

Fits(box) == \A r \in DOMAIN box : Len(box[r]) <= MaxInbox

\* a loop of publishes with no handler around it, whose f-th publish raises
\* (f = 0: none does): the publishes before the f-th are made, the rest not
PublishUntilFailure(outs, f) ==
    [i \in 1..(IF f = 0 \/ f > Len(outs) THEN Len(outs) ELSE f - 1) |-> outs[i]]

\* the same loop with try/except around each publish: only the f-th is lost
PublishEachGuarded(outs, f) ==
    LET idx == SelectSeq([i \in 1..Len(outs) |-> i], LAMBDA i : i # f)
    IN [j \in 1..Len(idx) |-> outs[idx[j]]]

\* one publish of pkt per channel of chs
ToAll(chs, pkt) == [i \in 1..Len(chs) |-> [ch |-> chs[i], pkt |-> pkt]]

\* [get_channel(n) for n in neighbors]
ChannelsOf(nbrs) == [i \in 1..Len(nbrs) |-> get_channel(nbrs[i])]

SeqToSet(sq) == {sq[i] : i \in 1..Len(sq)}

\* ------------------------------------------------------------------------
\* router_lsr_redis.py: LinkStateRouterRedis
\* ------------------------------------------------------------------------
\* hops of an advertisement (make_packet("lsp", ..., hops=8, ...))
LspHops == 8

\* What a handler leaves behind: the node's fields, the publishes it made
\* (out), how many it would make if none raised (attempts), whether it was
\* cut short by an exception (failed), whether it recomputed the table, the
\* payload it handed to the consumer, whether get_packet_id drew a uuid, and
\* the originator of the advertisement it handled to the end, and whether the
\* dedup test dropped the packet.
Keep(n) ==
    [nb |-> neighbors[n], db |-> lsdb[n], seenl |-> seen_lsp_ids[n], seenf |-> seen[n],
     rt |-> routing_table[n], out |-> << >>, attempts |-> 0, failed |-> FALSE,
     recomputed |-> FALSE, delivered |-> "", fresh |-> FALSE, accepted |-> "",
     dup |-> FALSE]

\* LsdbGraph without the node's own row
LsdbGraph_NoOwnRow(n, db, nb) == db

\* the graph _calculate_routing_table builds: the LSDB rows, plus the node's
\* own row of unit-cost neighbors when the LSDB has none for it
LsdbGraph(n, db, nb) ==
    IF n \in DOMAIN db THEN db ELSE db @@ (n :> [x \in SeqToSet(nb) |-> 1])

\* a recomputation that leaves the table as it is
calculate_routing_table_Stale(n, db, nb) == routing_table[n]

calculate_routing_table(n, db, nb) ==
    UNION {routing_table_for(g, n) : g \in {LsdbGraph(n, db, nb)}}

get_next_hop(rt, destination_node) ==
    IF \E e \in rt : e.destino = destination_node
    THEN (CHOOSE e \in rt : e.destino = destination_node).next_hop
    ELSE ""

\* a flood that leaves nobody out
FloodTargets_All(nb, exclude) == ChannelsOf(nb)

\* the neighbors _flood_lsp publishes to: all but the one whose channel is
\* exclude
FloodTargets(nb, exclude) ==
    SelectSeq(ChannelsOf(nb), LAMBDA ch : ~(exclude # "" /\ ch = exclude))

\* the packet _flood_lsp publishes for a received advertisement
FloodedCopy(pkt) == pkt

flood_lsp(n, pkt, exclude, f, base) ==
    LET outs == ToAll(FloodTargets(base.nb, exclude), FloodedCopy(pkt))
    IN [base EXCEPT !.out = PublishUntilFailure(outs, f),
                    !.attempts = Len(outs),
                    !.failed = (f # 0)]

\* the TTL test with the bound off by one
HopsExhausted_Negative(h) == h < 0

\* the TTL test after dec_hops: drop at <= 0
HopsExhausted(h) == h <= 0

\* _forward_packet without the TTL test
forward_packet_NoTtl(n, pkt, next_hop_node, f, base) ==
    LET p2 == dec_hops(pkt)
    IN IF ~KnownNode(next_hop_node) THEN [base EXCEPT !.failed = TRUE]
       ELSE LET outs == << [ch |-> get_channel(next_hop_node), pkt |-> p2] >>
            IN [base EXCEPT !.out = PublishUntilFailure(outs, f),
                            !.attempts = 1,
                            !.failed = (f # 0)]

\* _forward_packet: decrement, drop when exhausted, else publish to the next hop
forward_packet(n, pkt, next_hop_node, f, base) ==
    LET p2 == dec_hops(pkt)
    IN IF HopsExhausted(p2.hops) THEN base
       ELSE IF ~KnownNode(next_hop_node) THEN [base EXCEPT !.failed = TRUE]
       ELSE LET outs == << [ch |-> get_channel(next_hop_node), pkt |-> p2] >>
            IN [base EXCEPT !.out = PublishUntilFailure(outs, f),
                            !.attempts = 1,
                            !.failed = (f # 0)]

\* AddNeighbor without the membership test
AddNeighbor_Always(nb, sender_node) ==
    IF sender_node # "" THEN Append(nb, sender_node) ELSE nb

\* if sender_node and sender_node not in self.neighbors: append
AddNeighbor(nb, sender_node) ==
    IF sender_node # "" /\ sender_node \notin SeqToSet(nb) THEN Append(nb, sender_node) ELSE nb

\* a hello handler that recomputes the table for the new neighbor set
handle_hello_Recomputes(n, pkt, f) ==
    LET sender_ch == pkt.from
        nb2 == AddNeighbor(neighbors[n], channel_to_node(sender_ch))
        ack == make_packet("hello_ack", NODE_TO_CHANNEL[n], sender_ch, 1, "lsr", "HELLO_ACK")
    IN [Keep(n) EXCEPT !.nb = nb2,
                       !.rt = calculate_routing_table(n, lsdb[n], nb2),
                       !.out = PublishUntilFailure(<< [ch |-> sender_ch, pkt |-> ack] >>, f),
                       !.attempts = 1,
                       !.failed = (f # 0)]

handle_hello(n, pkt, f) ==
    LET sender_ch == pkt.from
        nb2 == AddNeighbor(neighbors[n], channel_to_node(sender_ch))
        ack == make_packet("hello_ack", NODE_TO_CHANNEL[n], sender_ch, 1, "lsr", "HELLO_ACK")
    IN [Keep(n) EXCEPT !.nb = nb2,
                       !.out = PublishUntilFailure(<< [ch |-> sender_ch, pkt |-> ack] >>, f),
                       !.attempts = 1,
                       !.failed = (f # 0)]

\* a hello_ack handler that also records the sender in the LSDB
handle_hello_ack_StoresRow(n, pkt) ==
    [Keep(n) EXCEPT !.nb = AddNeighbor(neighbors[n], channel_to_node(pkt.from)),
                    !.db = (channel_to_node(pkt.from) :> << >>) @@ lsdb[n]]

handle_hello_ack(n, pkt) ==
    [Keep(n) EXCEPT !.nb = AddNeighbor(neighbors[n], channel_to_node(pkt.from))]

\* a seen set that keeps the latest id only
MarkSeen_LatestOnly(seen_ids, id) == {id}

\* self.seen_lsp_ids.add(lsp_id) / self.seen.add(pkt_id)
MarkSeen(seen_ids, id) == seen_ids \cup {id}

\* a dedup test that never finds the id
IsDuplicate_Never(lsp_id, seen_ids) == FALSE

\* the dedup test of _handle_lsp and of the flooding _on_packet
IsDuplicate(lsp_id, seen_ids) == lsp_id \in seen_ids

\* StoreRow that keeps a row the LSDB already has
StoreRow_KeepExisting(db, originator, nbrs) ==
    IF originator \in DOMAIN db THEN db ELSE db @@ (originator :> nbrs)

\* self.lsdb[originator] = {"neighbors": dict(packet.get("neighbors", {}))}
StoreRow(db, originator, nbrs) ==
    [x \in DOMAIN db \cup {originator} |-> IF x = originator THEN nbrs ELSE db[x]]

\* an advertisement handler that tests the originator before it notes the id
handle_lsp_OriginatorFirst(n, pkt, f) ==
    LET lsp_id == get_packet_id(pkt, Uuid(n, uuid_count[n]))
        drew == [Keep(n) EXCEPT !.fresh = ~HasId(pkt)]
    IN IF IsDuplicate(lsp_id, seen_lsp_ids[n]) THEN [drew EXCEPT !.dup = TRUE]
       ELSE IF pkt.originator = "" THEN drew
       ELSE LET marked == [drew EXCEPT !.seenl = MarkSeen(@, lsp_id)]
                db2 == StoreRow(lsdb[n], pkt.originator, pkt.neighbors)
                flooded == flood_lsp(n, pkt, pkt.from, f, [marked EXCEPT !.db = db2])
            IN IF flooded.failed THEN flooded
               ELSE [flooded EXCEPT
                       !.rt = calculate_routing_table(n, db2, flooded.nb),
                       !.recomputed = TRUE,
                       !.accepted = pkt.originator]

handle_lsp(n, pkt, f) ==
    LET lsp_id == get_packet_id(pkt, Uuid(n, uuid_count[n]))
        drew == [Keep(n) EXCEPT !.fresh = ~HasId(pkt)]
    IN IF IsDuplicate(lsp_id, seen_lsp_ids[n]) THEN [drew EXCEPT !.dup = TRUE]
       ELSE LET marked == [drew EXCEPT !.seenl = MarkSeen(@, lsp_id)]
                originator == pkt.originator
            IN IF originator = "" THEN marked
               ELSE LET db2 == StoreRow(lsdb[n], originator, pkt.neighbors)
                        flooded == flood_lsp(n, pkt, pkt.from, f, [marked EXCEPT !.db = db2])
                    IN IF flooded.failed THEN flooded
                       ELSE [flooded EXCEPT
                               !.rt = calculate_routing_table(n, db2, flooded.nb),
                               !.recomputed = TRUE,
                               !.accepted = originator]

\* what _handle_data_packet does with a packet for a known destination that
\* has no entry in the routing table: print "Sem rota" and return
NoRoute(n, pkt, f, base) == base

handle_data_packet(n, pkt, f) ==
    IF is_deliver_to_me(pkt, NODE_TO_CHANNEL[n])
    THEN [Keep(n) EXCEPT !.delivered = pkt.payload]
    ELSE LET dst_node == channel_to_node(pkt.to)
         IN IF dst_node = "" THEN Keep(n)
            ELSE LET next_hop == get_next_hop(routing_table[n], dst_node)
                 IN IF next_hop # "" THEN forward_packet(n, pkt, next_hop, f, Keep(n))
                    ELSE NoRoute(n, pkt, f, Keep(n))

lsr_on_packet(n, pkt, f) ==
    IF ~validate_packet(pkt) THEN Keep(n)
    ELSE CASE pkt.type = "hello" -> handle_hello(n, pkt, f)
           [] pkt.type = "hello_ack" -> handle_hello_ack(n, pkt)
           [] pkt.type = "lsp" -> handle_lsp(n, pkt, f)
           [] pkt.type = "message" -> handle_data_packet(n, pkt, f)
           [] OTHER -> Keep(n)

\* the packets _emit_hello builds, one per neighbor
HelloOuts(n) ==
    [i \in 1..Len(neighbors[n]) |->
        LET ch == get_channel(neighbors[n][i])
        IN [ch |-> ch, pkt |-> make_packet("hello", NODE_TO_CHANNEL[n], ch, 1, "lsr", "HELLO")]]

\* an advertisement that lists no neighbor
OwnLsp_NoNeighbors(n) ==
    [make_packet("lsp", NODE_TO_CHANNEL[n], "*", LspHops, "lsr", "")
        EXCEPT !.originator = n,
               !.neighbors = << >>]

\* the advertisement _emit_lsp builds
OwnLsp(n) ==
    [make_packet("lsp", NODE_TO_CHANNEL[n], "*", LspHops, "lsr", "")
        EXCEPT !.originator = n,
               !.neighbors = [x \in SeqToSet(neighbors[n]) |-> 1]]

\* the data packet send builds
DataPacket(n, dst_node, payload, hops, alg) ==
    make_packet("message", NODE_TO_CHANNEL[n], get_channel(dst_node), hops, alg, payload)

\* a fallback that stops after the first neighbor
FallbackTargets_FirstOnly(nb) == SubSeq(ChannelsOf(nb), 1, 1)

\* the channels of the fallback loop of send: for neigh in self.neighbors
FallbackTargets(nb) == ChannelsOf(nb)

\* a send that publishes to the next hop with the hops the caller gave
lsr_send_NoDecrement(n, dst_node, payload, hops, f) ==
    LET pkt == DataPacket(n, dst_node, payload, hops, "lsr")
        nh == get_next_hop(routing_table[n], dst_node)
        outs == IF nh # "" THEN << [ch |-> get_channel(nh), pkt |-> pkt] >>
                ELSE ToAll(FallbackTargets(neighbors[n]), pkt)
    IN [Keep(n) EXCEPT !.out = PublishUntilFailure(outs, f),
                       !.attempts = Len(outs),
                       !.failed = (f # 0)]

lsr_send(n, dst_node, payload, hops, f) ==
    LET pkt == DataPacket(n, dst_node, payload, hops, "lsr")
        nh == get_next_hop(routing_table[n], dst_node)
    IN IF nh # "" THEN forward_packet(n, pkt, nh, f, Keep(n))
       ELSE LET outs == ToAll(FallbackTargets(neighbors[n]), pkt)
            IN [Keep(n) EXCEPT !.out = PublishUntilFailure(outs, f),
                               !.attempts = Len(outs),
                               !.failed = (f # 0)]

\* ------------------------------------------------------------------------
\* interactive_lsr_router.py: InteractiveLSRRouter
\* (discovered_neighbors is only displayed and is left out; _handle_hello,
\* _handle_lsp, _handle_data_packet, _flood_lsp, _forward_packet and
\* _calculate_routing_table are statement for statement those of
\* LinkStateRouterRedis)
\* ------------------------------------------------------------------------
\* f"LSP-{node_id}-{sequence_number}"
LspId(n, sq) == [k |-> "lsp", o |-> n, n |-> sq]

\* the advertisement _emit_lsp builds: type "info", neighbor costs keyed by
\* channel, and headers replaced by a one-element list holding the id
InfoLsp(n) ==
    [make_packet("info", NODE_TO_CHANNEL[n], "*", LspHops, "lsr", "")
        EXCEPT !.originator = n,
               !.neighbors = [c \in SeqToSet(ChannelsOf(neighbors[n])) |-> 1],
               !.headers = [shape |-> "list", alg |-> "", id |-> LspId(n, sequence_number[n])]]

\* _on_packet: a hello_ack is only printed
ilsr_on_packet(n, pkt, f) ==
    IF ~validate_packet(pkt) THEN Keep(n)
    ELSE CASE pkt.type = "hello" -> handle_hello(n, pkt, f)
           [] pkt.type = "hello_ack" -> Keep(n)
           [] pkt.type = "info" -> handle_lsp(n, pkt, f)
           [] pkt.type = "message" -> handle_data_packet(n, pkt, f)
           [] OTHER -> Keep(n)

\* broadcast_message: one unguarded publish per neighbor
broadcast_message(n, payload, hops, f) ==
    LET pkt == make_packet("message", NODE_TO_CHANNEL[n], "*", hops, "lsr", payload)
        outs == ToAll(ChannelsOf(neighbors[n]), pkt)
    IN [Keep(n) EXCEPT !.out = PublishUntilFailure(outs, f),
                       !.attempts = Len(outs),
                       !.failed = (f # 0)]

\* send_message: the wildcard goes to broadcast_message, the rest is send
send_message(n, dst_node, payload, hops, f) ==
    IF dst_node = "*" THEN broadcast_message(n, payload, hops, f)
    ELSE lsr_send(n, dst_node, payload, hops, f)

\* ------------------------------------------------------------------------
\* router_flooding_redis.py: FloodingRouterRedis
\* ------------------------------------------------------------------------
\* _flood_forward that leaves out the neighbor the packet names as its sender
flood_forward_SplitHorizon(n, pkt, f, base) ==
    LET outs == ToAll(SelectSeq(ChannelsOf(base.nb), LAMBDA ch : ch # pkt.from), pkt)
    IN [base EXCEPT !.out = PublishEachGuarded(outs, f), !.attempts = Len(outs)]

\* _flood_forward: one guarded publish per neighbor
flood_forward(n, pkt, f, base) ==
    LET outs == ToAll(ChannelsOf(base.nb), pkt)
    IN [base EXCEPT !.out = PublishEachGuarded(outs, f), !.attempts = Len(outs)]

flooding_on_packet(n, pkt, f) ==
    IF ~validate_packet(pkt) THEN Keep(n)
    ELSE LET pkt_id == get_packet_id(pkt, Uuid(n, uuid_count[n]))
             drew == [Keep(n) EXCEPT !.fresh = ~HasId(pkt)]
         IN IF IsDuplicate(pkt_id, seen[n]) THEN [drew EXCEPT !.dup = TRUE]
            ELSE LET marked == [drew EXCEPT !.seenf = MarkSeen(@, pkt_id)]
                 IN IF is_deliver_to_me(pkt, NODE_TO_CHANNEL[n])
                    THEN [marked EXCEPT !.delivered = pkt.payload]
                    ELSE LET p2 == dec_hops(pkt)
                         IN IF HopsExhausted(p2.hops) THEN marked
                            ELSE flood_forward(n, p2, f, marked)

flooding_send(n, dst_node, payload, hops, f) ==
    LET pkt == DataPacket(n, dst_node, payload, hops, "flooding")
        pkt_id == get_packet_id(pkt, Uuid(n, uuid_count[n]))
        outs == ToAll(ChannelsOf(neighbors[n]), pkt)
    IN [Keep(n) EXCEPT !.fresh = ~HasId(pkt),
                       !.seenf = MarkSeen(@, pkt_id),
                       !.out = PublishEachGuarded(outs, f),
                       !.attempts = Len(outs)]

\* ------------------------------------------------------------------------
\* The network: routers of one engine over the transport
\* ------------------------------------------------------------------------
\* topology files, in the list form load_topology accepts
LineCfg == [n \in Nodes |-> CASE n = "A" -> <<"B">> [] n = "B" -> <<"A", "C">>
                              [] n = "C" -> <<"B">> [] OTHER -> << >>]

TriangleCfg == [n \in Nodes |-> CASE n = "A" -> <<"B", "C">> [] n = "B" -> <<"A", "C">>
                                  [] n = "C" -> <<"A", "B">> [] OTHER -> << >>]

TopoCfg(alg) == IF alg = "flooding" THEN TriangleCfg ELSE LineCfg

\* graph[u] = {v: 1.0 for v in neigh}
load_topology(cfg) == [u \in DOMAIN cfg |-> [v \in SeqToSet(cfg[u]) |-> 1]]

\* payloads of the messages sent, one name per call of send
PayloadOf == <<"m1", "m2", "m3", "m4", "m5", "m6">>
Payloads == SeqToSet(PayloadOf)

\* advertisements that carry an id in their headers, as published by another
\* implementation of the protocol on the same bus
IdX == [k |-> "hdr", o |-> "x", n |-> 1]

ForeignLsp(from_node, originator, nbrs) ==
    [make_packet("lsp", NODE_TO_CHANNEL[from_node], "*", LspHops, "lsr", "")
        EXCEPT !.headers = [shape |-> "dict", alg |-> "lsr", id |-> IdX],
               !.originator = originator,
               !.neighbors = [x \in nbrs |-> 1]]

\* the same for the "info" advertisements InteractiveLSRRouter listens to
ForeignInfo(from_node, originator, nbrs) ==
    [ForeignLsp(from_node, originator, nbrs) EXCEPT !.type = "info"]

\* a hello / hello_ack published by a node that need not be a neighbor
ForeignHello(from_ch) == make_packet("hello", from_ch, BROADCAST, 1, "lsr", "HELLO")
ForeignHelloAck(from_ch) == make_packet("hello_ack", from_ch, BROADCAST, 1, "lsr", "HELLO_ACK")

\* packets validate_packet rejects: headers without "alg", and a "hops"
\* that is missing or not an int
WithoutAlg(pkt) == [pkt EXCEPT !.headers.alg = ""]
WithoutHops(pkt) == [pkt EXCEPT !.bad = {"hops"}]

\* what other clients of the bus publish, and on which node's channel
To(n, pkt) == [to |-> n, pkt |-> pkt]

\* a channel whose last component is no user of the names file
UnknownChannel == "sec10.grupo0.zz"

InjectSet == {To("B", ForeignLsp("C", "C", {"B"})), To("C", ForeignLsp("B", "D", {"C"})),
              To("A", ForeignInfo("B", "B", {"A", "C"})),
              To("A", ForeignHello(NODE_TO_CHANNEL["C"])),
              To("B", ForeignHello(NODE_TO_CHANNEL["C"])),
              To("A", ForeignHelloAck(NODE_TO_CHANNEL["C"])),
              To("B", ForeignHelloAck(NODE_TO_CHANNEL["C"])),
              To("A", WithoutAlg(ForeignHello(NODE_TO_CHANNEL["C"]))),
              To("B", make_packet("message", NODE_TO_CHANNEL["C"], UnknownChannel, 2, "lsr", "m5")),
              To("B", WithoutHops(make_packet("message", NODE_TO_CHANNEL["C"], BROADCAST,
                                              0, "lsr", "m6")))}

\* the advertisement type the running engine listens to
AdvertType == IF algorithm = "interactive_lsr" THEN "info" ELSE "lsp"

\* how many events of each kind a run may have
Cap == [hello |-> MaxHelloTicks, lsa |-> MaxLsaTicks, send |-> MaxSends,
        inject |-> MaxInject, fail |-> MaxFailures]

\* the node whose operator calls send (main() sends from node A)
Senders == {"A"}

\* timer ticks, sends, foreign packets and transport failures so far
Events == count.hello + count.lsa + count.send + count.inject + count.fail

\* the fields of node n as an operation finds them
Before(n) == [nb |-> neighbors[n], db |-> lsdb[n], rt |-> routing_table[n],
              seenl |-> seen_lsp_ids[n], seenf |-> seen[n]]

\* the effect of one operation of node n on the state; kind names the
\* counter of the operation ("" for a handled message)
Apply(n, op, kind, pkt, via, r, box, f) ==
    /\ Events + (IF kind = "" THEN 0 ELSE 1) + (IF f = 0 THEN 0 ELSE 1) <= MaxEvents
    /\ kind # "" => count[kind] < Cap[kind]
    /\ f # 0 => count.fail < Cap.fail
    /\ \E res \in {r} :
          /\ f <= res.attempts
          /\ res.fresh => uuid_count[n] < MaxUuid
          /\ \E box2 \in {PublishSeq(box, res.out, n)} :
                /\ Fits(box2)
                /\ inbox' = box2
          /\ neighbors' = [neighbors EXCEPT ![n] = res.nb]
          /\ lsdb' = [lsdb EXCEPT ![n] = res.db]
          /\ seen_lsp_ids' = [seen_lsp_ids EXCEPT ![n] = res.seenl]
          /\ seen' = [seen EXCEPT ![n] = res.seenf]
          /\ routing_table' = [routing_table EXCEPT ![n] = res.rt]
          /\ uuid_count' = [uuid_count EXCEPT ![n] = IF res.fresh THEN @ + 1 ELSE @]
          /\ delivered' = IF res.delivered \in Payloads
                          THEN [delivered EXCEPT ![n][res.delivered] = @ + 1]
                          ELSE delivered
          /\ processed' = IF res.accepted # ""
                          THEN [processed EXCEPT ![n] = @ \cup {res.accepted}]
                          ELSE processed
          /\ last' = [op |-> op, node |-> n, pkt |-> pkt, via |-> via, out |-> res.out,
                      attempts |-> res.attempts, failed |-> res.failed,
                      recomputed |-> res.recomputed, delivered |-> res.delivered # "",
                      dup |-> res.dup, f |-> f, before |-> Before(n)]
    /\ count' = [k \in DOMAIN count |->
                   count[k] + (IF k = kind THEN 1 ELSE 0)
                            + (IF k = "fail" /\ f # 0 THEN 1 ELSE 0)]
    /\ UNCHANGED <<graph, source, table, phase, algorithm>>
    /\ UNCHANGED svars

PopInbox(n) == [inbox EXCEPT ![n] = Tail(@)]

\* RedisTransport._listen_loop hands the next message to _on_packet
LSR_on_packet(n, f) ==
    /\ phase = "net" /\ algorithm = "link_state"
    /\ inbox[n] # << >>
    /\ Apply(n, "recv", "", Head(inbox[n]).pkt, Head(inbox[n]).via,
             lsr_on_packet(n, Head(inbox[n]).pkt, f), PopInbox(n), f)
    /\ UNCHANGED <<sequence_number, originated>>

\* the HELLO timer fires
LSR_emit_hello(n, f) ==
    /\ phase = "net" /\ algorithm = "link_state"
    /\ Apply(n, "hello_tick", "hello", NoPkt, "",
             [Keep(n) EXCEPT !.out = PublishUntilFailure(HelloOuts(n), f),
                             !.attempts = Len(HelloOuts(n)),
                             !.failed = (f # 0)],
             inbox, f)
    /\ UNCHANGED <<sequence_number, originated>>

\* the LSA timer fires
LSR_emit_lsp(n, f) ==
    /\ phase = "net" /\ algorithm = "link_state"
    /\ sequence_number' = [sequence_number EXCEPT ![n] = @ + 1]
    /\ Apply(n, "lsa_tick", "lsa", OwnLsp(n), "", flood_lsp(n, OwnLsp(n), "", f, Keep(n)), inbox, f)
    /\ originated' = Append(originated, OwnLsp(n).headers.id)

LSR_send(n, dst_node, hops, f) ==
    /\ phase = "net" /\ algorithm = "link_state"
    /\ KnownNode(dst_node)
    /\ Apply(n, "send", "send", DataPacket(n, dst_node, PayloadOf[count.send + 1], hops, "lsr"),
             "", lsr_send(n, dst_node, PayloadOf[count.send + 1], hops, f), inbox, f)
    /\ UNCHANGED <<sequence_number, originated>>

Flooding_on_packet(n, f) ==
    /\ phase = "net" /\ algorithm = "flooding"
    /\ inbox[n] # << >>
    /\ Apply(n, "recv", "", Head(inbox[n]).pkt, Head(inbox[n]).via,
             flooding_on_packet(n, Head(inbox[n]).pkt, f), PopInbox(n), f)
    /\ UNCHANGED <<sequence_number, originated>>

Flooding_send(n, dst_node, hops, f) ==
    /\ phase = "net" /\ algorithm = "flooding"
    /\ KnownNode(dst_node)
    /\ Apply(n, "send", "send", DataPacket(n, dst_node, PayloadOf[count.send + 1], hops, "flooding"),
             "", flooding_send(n, dst_node, PayloadOf[count.send + 1], hops, f), inbox, f)
    /\ UNCHANGED <<sequence_number, originated>>

InteractiveLsr == phase = "net" /\ algorithm = "interactive_lsr"

ILSR_on_packet(n, f) ==
    /\ InteractiveLsr
    /\ inbox[n] # << >>
    /\ Apply(n, "recv", "", Head(inbox[n]).pkt, Head(inbox[n]).via,
             ilsr_on_packet(n, Head(inbox[n]).pkt, f), PopInbox(n), f)
    /\ UNCHANGED <<sequence_number, originated>>

\* the HELLO timer fires
ILSR_emit_hello(n, f) ==
    /\ InteractiveLsr
    /\ Apply(n, "hello_tick", "hello", NoPkt, "",
             [Keep(n) EXCEPT !.out = PublishUntilFailure(HelloOuts(n), f),
                             !.attempts = Len(HelloOuts(n)),
                             !.failed = (f # 0)],
             inbox, f)
    /\ UNCHANGED <<sequence_number, originated>>

\* the LSA timer fires
ILSR_emit_lsp(n, f) ==
    /\ InteractiveLsr
    /\ sequence_number' = [sequence_number EXCEPT ![n] = @ + 1]
    /\ Apply(n, "lsa_tick", "lsa", InfoLsp(n), "", flood_lsp(n, InfoLsp(n), "", f, Keep(n)),
             inbox, f)
    /\ UNCHANGED originated

\* the operator types "send <dst> <text>" or "broadcast <text>"
ILSR_send_message(n, dst_node, hops, f) ==
    /\ InteractiveLsr
    /\ KnownNode(dst_node)
    /\ Apply(n, "send", "send", DataPacket(n, dst_node, PayloadOf[count.send + 1], hops, "lsr"),
             "", send_message(n, dst_node, PayloadOf[count.send + 1], hops, f), inbox, f)
    /\ UNCHANGED <<sequence_number, originated>>

\* a client of the bus that is none of the routers
External == "ext"

\* another client of the bus publishes pkt on the channel of node n
Inject(n, pkt) ==
    /\ phase = "net"
    /\ Events < MaxEvents
    /\ count.inject < Cap.inject
    /\ Len(inbox[n]) < MaxInbox
    /\ pkt.type \in {"lsp", "info"} => pkt.type = AdvertType
    /\ count' = [count EXCEPT !.inject = @ + 1]
    /\ inbox' = [inbox EXCEPT ![n] = Append(@, [pkt |-> pkt, via |-> External])]
    /\ last' = [op |-> "inject", node |-> n, pkt |-> pkt, via |-> "", out |-> << >>,
                attempts |-> 0, failed |-> FALSE, recomputed |-> FALSE, delivered |-> FALSE,
                dup |-> FALSE, f |-> 0, before |-> Before(n)]
    /\ UNCHANGED <<graph, source, table, phase, algorithm, neighbors, lsdb, seen_lsp_ids,
                   seen, routing_table, sequence_number, uuid_count, delivered, processed,
                   originated>>
    /\ UNCHANGED svars

Init ==
    /\ NoShutdown
    /\ phase = "net"
    /\ source = None
    /\ table = {}
    /\ algorithm \in {"link_state", "flooding", "interactive_lsr"}
    /\ graph = load_topology(TopoCfg(algorithm))
    /\ neighbors = [n \in Routers |-> TopoCfg(algorithm)[n]]
    /\ lsdb = [n \in Routers |-> << >>]
    /\ seen_lsp_ids = [n \in Routers |-> {}]
    /\ seen = [n \in Routers |-> {}]
    /\ routing_table = [n \in Routers |-> {}]
    /\ sequence_number = [n \in Routers |-> 0]
    /\ inbox = [n \in Routers |-> << >>]
    /\ uuid_count = [n \in Routers |-> 0]
    /\ count = [hello |-> 0, lsa |-> 0, send |-> 0, inject |-> 0, fail |-> 0]
    /\ last = [op |-> "none", node |-> "", pkt |-> NoPkt, via |-> "", out |-> << >>,
               attempts |-> 0, failed |-> FALSE, recomputed |-> FALSE, delivered |-> FALSE,
               dup |-> FALSE, f |-> 0,
               before |-> [nb |-> << >>, db |-> << >>, rt |-> {}, seenl |-> {}, seenf |-> {}]]
    /\ originated = << >>
    /\ delivered = [n \in Routers |-> [p \in Payloads |-> 0]]
    /\ processed = [n \in Routers |-> {}]

\* which publish of an operation raises: none (0) or the f-th
FailIndex == 0..Cardinality(Nodes)

Next ==
    \/ \E n \in Routers, f \in FailIndex : LSR_on_packet(n, f)
    \/ \E n \in Routers, f \in FailIndex : LSR_emit_hello(n, f)
    \/ \E n \in Routers, f \in FailIndex : LSR_emit_lsp(n, f)
    \/ \E n \in Senders, d \in Nodes \cup {"*"}, h \in 1..MaxHops, f \in FailIndex :
           LSR_send(n, d, h, f)
    \/ \E n \in Routers, f \in FailIndex : Flooding_on_packet(n, f)
    \/ \E n \in Senders, d \in Nodes \cup {"*"}, h \in 1..MaxHops, f \in FailIndex :
           Flooding_send(n, d, h, f)
    \/ \E n \in Routers, f \in FailIndex : ILSR_on_packet(n, f)
    \/ \E n \in Routers, f \in FailIndex : ILSR_emit_hello(n, f)
    \/ \E n \in Routers, f \in FailIndex : ILSR_emit_lsp(n, f)
    \/ \E n \in Senders, d \in Nodes \cup {"*"}, h \in 1..MaxHops, f \in FailIndex :
           ILSR_send_message(n, d, h, f)
    \/ \E i \in InjectSet : Inject(i.to, i.pkt)

Spec == Init /\ [][Next]_vars

\* ------------------------------------------------------------------------
\* Shutdown of one node: stop() against the two timer threads and the
\* listener thread (interactive_lsr_router.py, redis_transport.py)
\* ------------------------------------------------------------------------
TimerKinds == {"hello", "lsp"}

\* what is noted when something happens after stop() has returned
Noted(what, kind) ==
    IF stop_pc = "done" THEN after_stop \cup {[what |-> what, kind |-> kind]} ELSE after_stop

\* threading.Timer.run: the interval elapses on a timer nobody cancelled
TimerFire(k) ==
    /\ phase = "stop"
    /\ timer_pc[k] = "waiting" /\ timer[k] = "armed"
    /\ timer' = [timer EXCEPT ![k] = "fired"]
    /\ timer_pc' = [timer_pc EXCEPT ![k] = "emit"]
    /\ UNCHANGED <<stop_event, transport_stop, subscribed, stop_pc, listen_pc, pending,
                   after_stop>>
    /\ UNCHANGED <<graph, source, table, phase>> /\ UNCHANGED nvars

\* threading.Timer.run on a cancelled timer: the thread ends, no callback
TimerCancelled(k) ==
    /\ phase = "stop"
    /\ timer_pc[k] = "waiting" /\ timer[k] = "cancelled"
    /\ timer_pc' = [timer_pc EXCEPT ![k] = "dead"]
    /\ UNCHANGED <<stop_event, transport_stop, subscribed, timer, stop_pc, listen_pc,
                   pending, after_stop>>
    /\ UNCHANGED <<graph, source, table, phase>> /\ UNCHANGED nvars

\* a callback without the finally clause: an exception ends the thread
AfterEmit_NoFinally(raised) == IF raised THEN "dead" ELSE "schedule"

\* try ... finally: self._schedule_*() runs when the try block has ended,
\* with an exception pending ("raised") or without
AfterEmit(raised) == IF raised THEN "raised" ELSE "schedule"

\* the try block of _emit_hello / _emit_lsp: the packets are published
TimerEmit(k) ==
    /\ phase = "stop"
    /\ timer_pc[k] = "emit"
    /\ timer_pc' = [timer_pc EXCEPT ![k] = AfterEmit(FALSE)]
    /\ after_stop' = Noted("emit", k)
    /\ UNCHANGED <<stop_event, transport_stop, subscribed, timer, stop_pc, listen_pc,
                   pending>>
    /\ UNCHANGED <<graph, source, table, phase>> /\ UNCHANGED nvars

\* the try block raises at its first publish (get_channel of a neighbor that
\* is not in the names file, or the transport's publish): nothing is emitted
TimerEmitRaises(k) ==
    /\ phase = "stop"
    /\ timer_pc[k] = "emit"
    /\ timer_pc' = [timer_pc EXCEPT ![k] = AfterEmit(TRUE)]
    /\ UNCHANGED <<stop_event, transport_stop, subscribed, timer, stop_pc, listen_pc,
                   pending, after_stop>>
    /\ UNCHANGED <<graph, source, table, phase>> /\ UNCHANGED nvars

\* _schedule_hello / _schedule_lsp: if self._stop.is_set(): return
ScheduleTest(k) ==
    /\ phase = "stop"
    /\ timer_pc[k] \in {"schedule", "raised"}
    /\ timer_pc' = [timer_pc EXCEPT ![k] = IF stop_event THEN "dead" ELSE "arm"]
    /\ UNCHANGED <<stop_event, transport_stop, subscribed, timer, stop_pc, listen_pc,
                   pending, after_stop>>
    /\ UNCHANGED <<graph, source, table, phase>> /\ UNCHANGED nvars

\* _schedule_hello / _schedule_lsp: a new Timer is stored and started
ScheduleArm(k) ==
    /\ phase = "stop"
    /\ timer_pc[k] = "arm"
    /\ timer' = [timer EXCEPT ![k] = "armed"]
    /\ timer_pc' = [timer_pc EXCEPT ![k] = "waiting"]
    /\ after_stop' = Noted("arm", k)
    /\ UNCHANGED <<stop_event, transport_stop, subscribed, stop_pc, listen_pc, pending>>
    /\ UNCHANGED <<graph, source, table, phase>> /\ UNCHANGED nvars

\* stop(): self._stop.set()
StopSetEvent ==
    /\ phase = "stop"
    /\ stop_pc = "running"
    /\ stop_event' = TRUE
    /\ stop_pc' = "cancel_hello"
    /\ UNCHANGED <<transport_stop, subscribed, timer, timer_pc, listen_pc, pending, after_stop>>
    /\ UNCHANGED <<graph, source, table, phase>> /\ UNCHANGED nvars

\* Timer.cancel(): stops a timer that has not fired yet, does nothing to one
\* whose callback is running or has run
Cancel(k) == [timer EXCEPT ![k] = IF @ = "armed" THEN "cancelled" ELSE @]

\* stop(): self._t_hello.cancel()
StopCancelHello ==
    /\ phase = "stop"
    /\ stop_pc = "cancel_hello"
    /\ timer' = Cancel("hello")
    /\ stop_pc' = "cancel_lsp"
    /\ UNCHANGED <<stop_event, transport_stop, subscribed, timer_pc, listen_pc, pending,
                   after_stop>>
    /\ UNCHANGED <<graph, source, table, phase>> /\ UNCHANGED nvars

\* stop(): self._t_lsp.cancel()
StopCancelLsp ==
    /\ phase = "stop"
    /\ stop_pc = "cancel_lsp"
    /\ timer' = Cancel("lsp")
    /\ stop_pc' = "transport"
    /\ UNCHANGED <<stop_event, transport_stop, subscribed, timer_pc, listen_pc, pending,
                   after_stop>>
    /\ UNCHANGED <<graph, source, table, phase>> /\ UNCHANGED nvars

\* stop(): self.transport.stop() sets the transport's event, unsubscribes
\* and closes; stop() returns
StopTransport ==
    /\ phase = "stop"
    /\ stop_pc = "transport"
    /\ transport_stop' = TRUE
    /\ subscribed' = FALSE
    /\ stop_pc' = "done"
    /\ UNCHANGED <<stop_event, timer, timer_pc, listen_pc, pending, after_stop>>
    /\ UNCHANGED <<graph, source, table, phase>> /\ UNCHANGED nvars

\* another node publishes on this node's channel
Arrive ==
    /\ phase = "stop"
    /\ subscribed
    /\ pending < MaxPending
    /\ pending' = pending + 1
    /\ UNCHANGED <<stop_event, transport_stop, subscribed, timer, timer_pc, stop_pc,
                   listen_pc, after_stop>>
    /\ UNCHANGED <<graph, source, table, phase>> /\ UNCHANGED nvars

\* _listen_loop: listen() yields the next message
ListenTake ==
    /\ phase = "stop"
    /\ listen_pc = "listen" /\ subscribed /\ pending > 0
    /\ pending' = pending - 1
    /\ listen_pc' = "test"
    /\ UNCHANGED <<stop_event, transport_stop, subscribed, timer, timer_pc, stop_pc,
                   after_stop>>
    /\ UNCHANGED <<graph, source, table, phase>> /\ UNCHANGED nvars

\* _listen_loop: if self._stop.is_set(): break
ListenTest ==
    /\ phase = "stop"
    /\ listen_pc = "test"
    /\ listen_pc' = IF transport_stop THEN "ended" ELSE "call"
    /\ UNCHANGED <<stop_event, transport_stop, subscribed, timer, timer_pc, stop_pc,
                   pending, after_stop>>
    /\ UNCHANGED <<graph, source, table, phase>> /\ UNCHANGED nvars

\* _listen_loop: self.on_packet(pkt)
ListenCall ==
    /\ phase = "stop"
    /\ listen_pc = "call"
    /\ listen_pc' = "listen"
    /\ after_stop' = Noted("packet", "")
    /\ UNCHANGED <<stop_event, transport_stop, subscribed, timer, timer_pc, stop_pc,
                   pending>>
    /\ UNCHANGED <<graph, source, table, phase>> /\ UNCHANGED nvars

\* _listen_loop: listen() ends once the subscription is closed
ListenClosed ==
    /\ phase = "stop"
    /\ listen_pc = "listen" /\ ~subscribed
    /\ listen_pc' = "ended"
    /\ UNCHANGED <<stop_event, transport_stop, subscribed, timer, timer_pc, stop_pc,
                   pending, after_stop>>
    /\ UNCHANGED <<graph, source, table, phase>> /\ UNCHANGED nvars

\* the node after start(): subscribed, listening, both timers armed
InitStop ==
    /\ phase = "stop"
    /\ graph = << >> /\ source = None /\ table = {}
    /\ algorithm = "interactive_lsr"
    /\ neighbors = << >> /\ lsdb = << >> /\ seen_lsp_ids = << >> /\ seen = << >>
    /\ routing_table = << >> /\ sequence_number = << >> /\ inbox = << >>
    /\ uuid_count = << >> /\ count = << >> /\ last = << >> /\ delivered = << >>
    /\ processed = << >> /\ originated = << >>
    /\ stop_event = FALSE
    /\ transport_stop = FALSE
    /\ subscribed = TRUE
    /\ timer = [k \in TimerKinds |-> "armed"]
    /\ timer_pc = [k \in TimerKinds |-> "waiting"]
    /\ stop_pc = "running"
    /\ listen_pc = "listen"
    /\ pending = 0
    /\ after_stop = {}

NextStop ==
    \/ \E k \in TimerKinds : TimerFire(k)
    \/ \E k \in TimerKinds : TimerCancelled(k)
    \/ \E k \in TimerKinds : TimerEmit(k)
    \/ \E k \in TimerKinds : TimerEmitRaises(k)
    \/ \E k \in TimerKinds : ScheduleTest(k)
    \/ \E k \in TimerKinds : ScheduleArm(k)
    \/ StopSetEvent
    \/ StopCancelHello
    \/ StopCancelLsp
    \/ StopTransport
    \/ Arrive
    \/ ListenTake
    \/ ListenTest
    \/ ListenCall
    \/ ListenClosed

SpecStop == InitStop /\ [][NextStop]_vars

\* ------------------------------------------------------------------------
\* Flooding of one advertisement between LinkStateRouterRedis nodes whose
\* neighbor lists stay as the topology file gave them
\* ------------------------------------------------------------------------
\* the links of a topology file over the routers
Links == {{"A", "B"}, {"A", "C"}, {"B", "C"}}

\* the orders in which a file lists the neighbors of a node
ListOrders == {<<"A", "B", "C">>, <<"C", "B", "A">>}

\* the topology file of a set of links: every router lists its neighbors
FileOf(E, ord) ==
    [n \in Nodes |-> SelectSeq(ord, LAMBDA m : {n, m} \in E /\ m # n)]

FloodTopologies == {FileOf(E, ord) : E \in SUBSET Links, ord \in ListOrders}

\* uuid4 never returns a value twice, and an id drawn by get_packet_id is
\* written into no packet: no later membership test of seen_lsp_ids can
\* find it. Only ids taken from a packet's headers are kept in the set.
Forget(S) == {id \in S : id.k # "uuid"}

InitFlood ==
    /\ NoShutdown
    /\ phase = "flood"
    /\ source = None
    /\ table = {}
    /\ algorithm = "link_state"
    /\ \E cfg \in FloodTopologies :
          /\ graph = load_topology(cfg)
          /\ neighbors = [n \in Routers |-> cfg[n]]
    /\ lsdb = [n \in Routers |-> << >>]
    /\ seen_lsp_ids = [n \in Routers |-> {}]
    /\ seen = [n \in Routers |-> {}]
    /\ routing_table = [n \in Routers |-> {}]
    /\ sequence_number = [n \in Routers |-> 0]
    /\ inbox = [n \in Routers |-> << >>]
    /\ uuid_count = [n \in Routers |-> 0]
    /\ count = [hello |-> 0, lsa |-> 0, send |-> 0, inject |-> 0, fail |-> 0]
    /\ last = [op |-> "none", node |-> "", pkt |-> NoPkt, via |-> "", out |-> << >>,
               attempts |-> 0, failed |-> FALSE, recomputed |-> FALSE, delivered |-> FALSE,
               dup |-> FALSE, f |-> 0,
               before |-> [nb |-> << >>, db |-> << >>, rt |-> {}, seenl |-> {}, seenf |-> {}]]
    /\ originated = << >>
    /\ delivered = [n \in Routers |-> [p \in Payloads |-> 0]]
    /\ processed = [n \in Routers |-> {}]

\* what one operation of node n leaves behind, no publish raising
Effect(n, op, pkt, via, res, box) ==
    /\ inbox' = PublishSeq(box, res.out, n)
    /\ neighbors' = [neighbors EXCEPT ![n] = res.nb]
    /\ lsdb' = [lsdb EXCEPT ![n] = res.db]
    /\ seen_lsp_ids' = [seen_lsp_ids EXCEPT ![n] = Forget(res.seenl)]
    /\ routing_table' = [routing_table EXCEPT ![n] = res.rt]
    /\ processed' = IF res.accepted # ""
                    THEN [processed EXCEPT ![n] = @ \cup {res.accepted}]
                    ELSE processed
    /\ last' = [op |-> op, node |-> n, pkt |-> pkt, via |-> via, out |-> res.out,
                attempts |-> res.attempts, failed |-> res.failed,
                recomputed |-> res.recomputed, delivered |-> res.delivered # "",
                dup |-> res.dup, f |-> 0, before |-> Before(n)]
    /\ UNCHANGED <<graph, source, table, phase, algorithm, seen, uuid_count, delivered>>
    /\ UNCHANGED svars

\* the one LSA tick of the run: _emit_lsp of node n
Flood_emit_lsp(n) ==
    /\ phase = "flood"
    /\ count.lsa = 0
    /\ sequence_number' = [sequence_number EXCEPT ![n] = @ + 1]
    /\ count' = [count EXCEPT !.lsa = 1]
    /\ originated' = Append(originated, OwnLsp(n).headers.id)
    /\ \E res \in {flood_lsp(n, OwnLsp(n), "", 0, Keep(n))} :
          Effect(n, "lsa_tick", OwnLsp(n), "", res, inbox)

\* _listen_loop of node n hands the next message to _on_packet
Flood_on_packet(n) ==
    /\ phase = "flood"
    /\ inbox[n] # << >>
    /\ \E res \in {lsr_on_packet(n, Head(inbox[n]).pkt, 0)} :
          Effect(n, "recv", Head(inbox[n]).pkt, Head(inbox[n]).via, res, PopInbox(n))
    /\ UNCHANGED <<sequence_number, count, originated>>

NextFlood ==
    \/ \E n \in Routers : Flood_emit_lsp(n)
    \/ \E n \in Routers : Flood_on_packet(n)

\* the listener thread of every node runs for as long as the process does
FairFlood == \A n \in Routers : WF_vars(Flood_on_packet(n))

SpecFlood == InitFlood /\ [][NextFlood]_vars /\ FairFlood

\* ------------------------------------------------------------------------
\* Data forwarding over routing tables of any content: the tables are taken
\* as they are, whatever advertisements produced them
\* ------------------------------------------------------------------------
\* the destinations the tables have entries for
DataDests == {"C", "D"}

\* hops of a data packet as the caller of send gives it
DataHops == 1..(MaxHops + 1)

\* a routing table: for each destination no entry or an entry with any other
\* router as next hop
TablesOf(n) ==
    {{[destino |-> d, next_hop |-> t[d], costo |-> 1] : d \in {x \in DOMAIN t : t[x] # ""}} :
        t \in [DataDests \ {n} -> (Routers \ {n}) \cup {""}]}

InitData ==
    /\ NoShutdown
    /\ phase = "net"
    /\ source = None
    /\ table = {}
    /\ algorithm \in {"link_state", "flooding"}
    /\ graph = load_topology(TopoCfg(algorithm))
    /\ neighbors = [n \in Routers |-> TopoCfg(algorithm)[n]]
    /\ lsdb = [n \in Routers |-> << >>]
    /\ seen_lsp_ids = [n \in Routers |-> {}]
    /\ seen = [n \in Routers |-> {}]
    /\ routing_table \in [Routers -> UNION {TablesOf(n) : n \in Routers}]
    /\ \A n \in Routers : routing_table[n] \in (IF algorithm = "link_state" THEN TablesOf(n) ELSE {{}})
    /\ sequence_number = [n \in Routers |-> 0]
    /\ inbox = [n \in Routers |-> << >>]
    /\ uuid_count = [n \in Routers |-> 0]
    /\ count = [hello |-> 0, lsa |-> 0, send |-> 0, inject |-> 0, fail |-> 0]
    /\ last = [op |-> "none", node |-> "", pkt |-> NoPkt, via |-> "", out |-> << >>,
               attempts |-> 0, failed |-> FALSE, recomputed |-> FALSE, delivered |-> FALSE,
               dup |-> FALSE, f |-> 0,
               before |-> [nb |-> << >>, db |-> << >>, rt |-> {}, seenl |-> {}, seenf |-> {}]]
    /\ originated = << >>
    /\ delivered = [n \in Routers |-> [p \in Payloads |-> 0]]
    /\ processed = [n \in Routers |-> {}]

NextData ==
    \/ \E n \in Routers, f \in FailIndex : LSR_on_packet(n, f)
    \/ \E n \in Senders, d \in Nodes \cup {"*"}, h \in DataHops, f \in FailIndex :
           LSR_send(n, d, h, f)
    \/ \E n \in Routers, f \in FailIndex : Flooding_on_packet(n, f)
    \/ \E n \in Senders, d \in Nodes \cup {"*"}, h \in DataHops, f \in FailIndex :
           Flooding_send(n, d, h, f)

SpecData == InitData /\ [][NextData]_vars

\* ------------------------------------------------------------------------
\* Advertisements that carry an id in their headers, published on the bus
\* by clients other than the routers, with or without an originator
\* ------------------------------------------------------------------------
IdY == [k |-> "hdr", o |-> "y", n |-> 1]

\* an advertisement of the type the running engine handles, sent from C's
\* channel, naming originator o ("" when the field is missing)
ForgedAdvert(o, id) ==
    [ForeignLsp("C", o, {"B"}) EXCEPT !.type = AdvertType, !.headers.id = id]

ForgedSet == {To(n, ForgedAdvert(o, id)) : n \in {"A", "B"}, o \in {"", "C"}, id \in {IdX, IdY}}

InitForged ==
    /\ NoShutdown
    /\ phase = "forged"
    /\ source = None
    /\ table = {}
    /\ algorithm \in {"link_state", "interactive_lsr"}
    /\ graph = load_topology(LineCfg)
    /\ neighbors = [n \in Routers |-> LineCfg[n]]
    /\ lsdb = [n \in Routers |-> << >>]
    /\ seen_lsp_ids = [n \in Routers |-> {}]
    /\ seen = [n \in Routers |-> {}]
    /\ routing_table = [n \in Routers |-> {}]
    /\ sequence_number = [n \in Routers |-> 0]
    /\ inbox = [n \in Routers |-> << >>]
    /\ uuid_count = [n \in Routers |-> 0]
    /\ count = [hello |-> 0, lsa |-> 0, send |-> 0, inject |-> 0, fail |-> 0]
    /\ last = [op |-> "none", node |-> "", pkt |-> NoPkt, via |-> "", out |-> << >>,
               attempts |-> 0, failed |-> FALSE, recomputed |-> FALSE, delivered |-> FALSE,
               dup |-> FALSE, f |-> 0,
               before |-> [nb |-> << >>, db |-> << >>, rt |-> {}, seenl |-> {}, seenf |-> {}]]
    /\ originated = << >>
    /\ delivered = [n \in Routers |-> [p \in Payloads |-> 0]]
    /\ processed = [n \in Routers |-> {}]

\* a client publishes an advertisement on the channel of node n
Forged_publish(n, pkt) ==
    /\ phase = "forged"
    /\ count.inject < MaxForged
    /\ count' = [count EXCEPT !.inject = @ + 1]
    /\ inbox' = [inbox EXCEPT ![n] = Append(@, [pkt |-> pkt, via |-> External])]
    /\ last' = [op |-> "inject", node |-> n, pkt |-> pkt, via |-> "", out |-> << >>,
                attempts |-> 0, failed |-> FALSE, recomputed |-> FALSE, delivered |-> FALSE,
                dup |-> FALSE, f |-> 0, before |-> Before(n)]
    /\ UNCHANGED <<graph, source, table, phase, algorithm, neighbors, lsdb, seen_lsp_ids,
                   seen, routing_table, sequence_number, uuid_count, delivered, processed,
                   originated>>
    /\ UNCHANGED svars

\* _listen_loop of node n hands the next message to the engine's _on_packet
Forged_on_packet(n) ==
    /\ phase = "forged"
    /\ inbox[n] # << >>
    /\ \E res \in {IF algorithm = "link_state"
                   THEN lsr_on_packet(n, Head(inbox[n]).pkt, 0)
                   ELSE ilsr_on_packet(n, Head(inbox[n]).pkt, 0)} :
          Effect(n, "recv", Head(inbox[n]).pkt, Head(inbox[n]).via, res, PopInbox(n))
    /\ UNCHANGED <<sequence_number, count, originated>>

NextForged ==
    \/ \E i \in ForgedSet : Forged_publish(i.to, i.pkt)
    \/ \E n \in Routers : Forged_on_packet(n)

SpecForged == InitForged /\ [][NextForged]_vars

\* ------------------------------------------------------------------------
\* Reference shortest-path distances (Bellman-Ford), used by the properties
\* ------------------------------------------------------------------------
MinOf(S) == CHOOSE x \in S : \A y \in S : x <= y

RECURSIVE BellmanFord(_, _, _)
BellmanFord(g, s, k) ==
    IF k = 0 THEN [n \in Nodes |-> IF n = s THEN 0 ELSE Inf]
    ELSE LET p == BellmanFord(g, s, k - 1)
         IN [v \in Nodes |->
                MinOf({p[v]} \cup {p[u] + g[u][v] :
                                     u \in {x \in DOMAIN g : v \in DOMAIN g[x] /\ p[x] # Inf}})]

RefDist(g, s) == BellmanFord(g, s, Cardinality(Nodes))

\* ------------------------------------------------------------------------
\* Properties of routing_table_for
\* ------------------------------------------------------------------------

\* C1: every entry of the table returned by routing_table_for has costo equal
\* to the reference shortest-path distance from source to destino, and its
\* next_hop is a neighbor of source from which destino is reached with the
\* remaining cost (the first node of a path of total cost costo).
C1_EntriesAreShortest ==
    phase = "done" =>
        \A e \in table :
            /\ e.costo = RefDist(graph, source)[e.destino]
            /\ e.next_hop \in DOMAIN RowOf(graph, source)
            /\ graph[source][e.next_hop] + RefDist(graph, e.next_hop)[e.destino] = e.costo

\* a table with a destination two or more edges away, reached through a
\* next hop other than the destination
C1_Witness ==
    /\ phase = "done"
    /\ \E e \in table : e.next_hop # e.destino /\ e.costo > 0

\* C2: the table has exactly one entry for every node other than source at
\* finite distance, rows or not, and none for source or unreachable nodes.
C2_OneEntryPerReachable ==
    phase = "done" =>
        /\ {e.destino : e \in table} =
               {n \in Nodes \ {source} : RefDist(graph, source)[n] # Inf}
        /\ \A e1, e2 \in table : e1.destino = e2.destino => e1 = e2

\* ------------------------------------------------------------------------
\* Properties of the engines
\* ------------------------------------------------------------------------
LinkState == phase = "net" /\ algorithm = "link_state"
Flooding == phase = "net" /\ algorithm = "flooding"

\* the last step was _on_packet on a packet that passed validate_packet
Received == phase = "net" /\ last.op = "recv" /\ validate_packet(last.pkt)

\* the channels the last operation published to
PublishedTo == {last.out[i].ch : i \in 1..Len(last.out)}

\* the copies of the received packet among the publishes of the last step
\* (a hello_ack answering a hello is not one)
Relayed == {i \in 1..Len(last.out) : last.out[i].pkt.type = last.pkt.type}

HasRoute(n, dst, nh, cost) ==
    \E e \in routing_table[n] : e.destino = dst /\ e.next_hop = nh /\ e.costo = cost

\* Scenario 1: the line A-B-C of link-state routers, nobody else on the bus
Scenario1 == LinkState /\ count.inject = 0

\* C3 (as stated): on the line A-B-C, once A has processed C's advertisement
\* and C has processed A's, A's table has C via B at cost 2.
C3_Original ==
    (Scenario1 /\ "C" \in processed["A"] /\ "A" \in processed["C"])
        => HasRoute("A", "C", "B", 2)

\* C3 (amended): on the line A-B-C, once A has processed the advertisements
\* of both B and C, and C has processed A's, A's table has C via B at cost 2.
C3_Amended ==
    (Scenario1 /\ "C" \in processed["A"] /\ "A" \in processed["C"] /\ "B" \in processed["A"])
        => HasRoute("A", "C", "B", 2)

C3_Witness ==
    /\ Scenario1 /\ "C" \in processed["A"] /\ "A" \in processed["C"] /\ "B" \in processed["A"]
    /\ HasRoute("A", "C", "B", 2)

\* C4: handling an advertisement whose headers.id is already in
\* seen_lsp_ids changes neither the LSDB nor the routing table, publishes
\* nothing and does not recompute the table.
C4_DuplicateIsNoop ==
    [][(/\ LinkState
        /\ last'.op = "recv"
        /\ validate_packet(last'.pkt)
        /\ last'.pkt.type = "lsp"
        /\ HasId(last'.pkt)
        /\ last'.pkt.headers.id \in seen_lsp_ids[last'.node])
       => (/\ lsdb' = lsdb
           /\ routing_table' = routing_table
           /\ seen_lsp_ids' = seen_lsp_ids
           /\ last'.out = << >>
           /\ ~last'.recomputed)]_vars

\* an advertisement with an id and an originator was delivered a second time
C4_Witness ==
    /\ LinkState /\ Received
    /\ last.pkt.type = "lsp" /\ HasId(last.pkt) /\ last.pkt.originator # ""
    /\ last.dup
    /\ last.pkt.originator \in DOMAIN lsdb[last.node]

\* C5: every copy of a received packet that a node publishes has fewer hops
\* than the received packet, and a packet received with hops <= 0 is not
\* published again.
C5_TtlMonotone ==
    Received =>
        \A i \in Relayed : last.out[i].pkt.hops < last.pkt.hops /\ last.pkt.hops > 0

\* C6: a data packet for another node that arrives with hops = 1 is not
\* published by the receiver, in either engine.
C6_LastHopDropped ==
    (/\ Received
     /\ last.pkt.type = "message"
     /\ last.pkt.hops = 1
     /\ ~is_deliver_to_me(last.pkt, NODE_TO_CHANNEL[last.node]))
        => last.out = << >>

\* such a packet reached a link-state router that has a route to its
\* destination
C6_Witness ==
    /\ LinkState /\ Received
    /\ last.pkt.type = "message" /\ last.pkt.hops = 1
    /\ ~is_deliver_to_me(last.pkt, NODE_TO_CHANNEL[last.node])
    /\ get_next_hop(routing_table[last.node], channel_to_node(last.pkt.to)) # ""
    /\ last.out = << >>

\* C7: in a network of flooding routers, the payload of one send reaches
\* the consumer of each node at most once.
C7_DeliveredAtMostOnce ==
    Flooding => \A n \in Routers : \A p \in Payloads : delivered[n][p] <= 1

\* C8: a link-state router that receives a data packet for another, known
\* node for which its table has no entry publishes it to every neighbor.
C8_NoRouteFloods ==
    (/\ LinkState /\ Received
     /\ last.pkt.type = "message"
     /\ ~is_deliver_to_me(last.pkt, NODE_TO_CHANNEL[last.node])
     /\ channel_to_node(last.pkt.to) # ""
     /\ get_next_hop(routing_table[last.node], channel_to_node(last.pkt.to)) = ""
     /\ ~last.failed)
        => /\ PublishedTo = SeqToSet(ChannelsOf(neighbors[last.node]))
           /\ \A i \in 1..Len(last.out) : last.out[i].pkt.type = "message"

\* C9: a link-state router that accepts an advertisement publishes it to
\* every neighbor but the router that published this copy to it, and
\* nothing to that router.
C9_FloodExceptPreviousHop ==
    (/\ LinkState /\ Received
     /\ last.pkt.type = "lsp"
     /\ last.recomputed
     /\ last.via \in Routers)
        => PublishedTo = SeqToSet(ChannelsOf(neighbors[last.node])) \ {NODE_TO_CHANNEL[last.via]}

\* C10: an advertisement originated on an LSA tick has in its headers an id
\* that no earlier originated advertisement has, the node as originator,
\* hops 8, cost 1 for exactly the node's neighbors, and goes to every neighbor.
C10_FreshAdvertisement ==
    /\ LinkState =>
          /\ \A i \in 1..Len(originated) : originated[i] # NoId
          /\ \A i, j \in 1..Len(originated) : originated[i] = originated[j] => i = j
    /\ (LinkState /\ last.op = "lsa_tick" /\ ~last.failed) =>
          /\ HasId(last.pkt)
          /\ last.pkt.originator = last.node
          /\ last.pkt.hops = 8
          /\ last.pkt.neighbors = [x \in SeqToSet(neighbors[last.node]) |-> 1]
          /\ PublishedTo = SeqToSet(ChannelsOf(neighbors[last.node]))
          /\ \A i \in 1..Len(last.out) : last.out[i].pkt = last.pkt

\* C11: once stop() has returned, no HELLO or advertisement is emitted, no
\* timer is armed or gets re-armed, and no inbound packet is handed to the
\* packet handler, whatever the interleaving of stop() with the timer
\* callbacks and the listener was.
C11_StopIsFinal ==
    (phase = "stop" /\ stop_pc = "done") =>
        /\ after_stop = {}
        /\ \A k \in TimerKinds : timer[k] # "armed"

\* one of the two link-state engines runs
LsrEngine == phase = "net" /\ algorithm \in {"link_state", "interactive_lsr"}

\* the last step handled a packet of the given type that is well formed
Handled(type) ==
    /\ last.op = "recv"
    /\ last.pkt.type = type
    /\ last.pkt.bad = {} /\ last.pkt.headers.shape = "dict" /\ last.pkt.headers.alg # ""

\* the node the sender address of the last packet maps to ("" when none)
Sender == channel_to_node(last.pkt.from)

\* the hello_ack a node sends back for the last packet
AckOf == [type |-> "hello_ack", from |-> NODE_TO_CHANNEL[last.node], to |-> last.pkt.from,
          hops |-> 1]

\* C12: a link-state node that handles a hello from a sender outside its
\* neighbor set appends exactly that sender; from a neighbor it leaves the
\* set as it is; in both cases it publishes exactly one hello_ack with hop
\* limit 1 to the sender's address.
C12_HelloGrowsAndAcks ==
    (LsrEngine /\ Handled("hello") /\ Sender # "" /\ last.f = 0) =>
        /\ neighbors[last.node] = IF Sender \in SeqToSet(last.before.nb)
                                  THEN last.before.nb
                                  ELSE Append(last.before.nb, Sender)
        /\ Len(last.out) = 1
        /\ last.out[1].ch = last.pkt.from
        /\ [k \in DOMAIN AckOf |-> last.out[1].pkt[k]] = AckOf

\* a hello from a node outside the neighbor set was handled by the
\* interactive engine
C12_Witness ==
    /\ InteractiveLsr /\ Handled("hello") /\ last.f = 0
    /\ Sender # "" /\ Sender \notin SeqToSet(last.before.nb)
    /\ Len(neighbors[last.node]) = Len(last.before.nb) + 1
    /\ Len(last.out) = 1

\* C13: in both link-state engines, handling a hello_ack from a sender
\* outside the neighbor set adds the sender, and handling a hello_ack
\* publishes nothing.
C13_HelloAckAddsSender ==
    (LsrEngine /\ Handled("hello_ack")) =>
        /\ Sender # "" => Sender \in SeqToSet(neighbors[last.node])
        /\ last.out = << >>

\* C14: an operation whose f-th publish fails still makes every other
\* publish of its list.
C14_FailureDoesNotAbort ==
    (phase = "net" /\ last.f # 0) => Len(last.out) = last.attempts - 1

\* the last step handled an advertisement that is no duplicate and names an
\* originator
Accepted ==
    /\ LsrEngine /\ Handled(AdvertType)
    /\ ~last.dup /\ last.pkt.originator # ""

\* C15: after a non-duplicate advertisement of originator o is handled the
\* LSDB row of o is the neighbor-cost record of the advertisement, whatever
\* the row was; and no operation removes a row.
C15_LsdbOverwritten ==
    /\ Accepted => /\ last.pkt.originator \in DOMAIN lsdb[last.node]
                   /\ lsdb[last.node][last.pkt.originator] = last.pkt.neighbors
    /\ (LsrEngine /\ last.op # "none") => DOMAIN last.before.db \subseteq DOMAIN lsdb[last.node]

\* a row was replaced by a different record
C15_Witness ==
    /\ Accepted
    /\ last.pkt.originator \in DOMAIN last.before.db
    /\ last.before.db[last.pkt.originator] # last.pkt.neighbors
    /\ lsdb[last.node][last.pkt.originator] = last.pkt.neighbors

\* the graph of the whole LSDB of node n, with n's own row of unit-cost
\* neighbors when the LSDB has none
WholeGraph(n) ==
    [x \in DOMAIN lsdb[n] \cup {n} |->
        IF x \in DOMAIN lsdb[n] THEN lsdb[n][x] ELSE [y \in SeqToSet(neighbors[n]) |-> 1]]

\* C16: when the handling of an accepted advertisement has run to its end,
\* the routing table is routing_table_for of the graph of the whole LSDB.
C16_TableFromLsdb ==
    (Accepted /\ ~last.failed) =>
        routing_table[last.node] = routing_table_for(WholeGraph(last.node), last.node)

\* an accepted advertisement replaced the table by a different one
C16_Witness ==
    /\ Accepted /\ ~last.failed
    /\ routing_table[last.node] # last.before.rt
    /\ routing_table[last.node] # {}

\* the destination node of the data packet of the last send
SendDst == IF last.pkt.to = BROADCAST THEN BROADCAST ELSE channel_to_node(last.pkt.to)

\* the neighbor channels of the node of the last operation
NeighborChannels == SeqToSet(ChannelsOf(neighbors[last.node]))

\* C17: send on a link-state engine publishes the data packet to the next
\* hop only when the table has an entry for the destination, and to every
\* neighbor when it has none or the destination is the wildcard.
C17_SendSelectsPath ==
    (LsrEngine /\ last.op = "send" /\ last.f = 0) =>
        LET nh == get_next_hop(last.before.rt, SendDst)
        IN /\ \A i \in 1..Len(last.out) :
                  /\ last.out[i].pkt.type = "message"
                  /\ last.out[i].pkt.to = last.pkt.to
                  /\ last.out[i].pkt.payload = last.pkt.payload
           /\ IF nh # ""
              THEN Len(last.out) = 1 /\ last.out[1].ch = NODE_TO_CHANNEL[nh]
              ELSE PublishedTo = NeighborChannels /\ Len(last.out) = Len(neighbors[last.node])

\* C18: when a copy of a packet a flooding node sent itself comes back to
\* it, the node drops it at the dedup test: the seen set stays, nothing is
\* delivered, nothing is published.
C18_OwnCopyDropped ==
    (/\ Flooding /\ Handled("message")
     /\ last.via \in Routers
     /\ last.pkt.from = NODE_TO_CHANNEL[last.node])
        => /\ last.dup
           /\ seen[last.node] = last.before.seenf
           /\ ~last.delivered
           /\ last.out = << >>

\* C19: node D has no edges: the table computed with D as source is empty,
\* and send to D from a link-state node publishes the data packet to every
\* neighbor of the sender and raises nothing.
C19_DisconnectedFallsBack ==
    LsrEngine =>
        /\ routing_table_for(graph, "D") = {}
        /\ (last.op = "send" /\ last.pkt.to = NODE_TO_CHANNEL["D"] /\ last.f = 0) =>
              /\ ~last.failed
              /\ PublishedTo = NeighborChannels
              /\ Len(last.out) = Len(neighbors[last.node])
              /\ \A i \in 1..Len(last.out) : last.out[i].pkt = last.pkt

\* a node with two neighbors sent to D
C19_Witness ==
    /\ LsrEngine
    /\ last.op = "send" /\ last.pkt.to = NODE_TO_CHANNEL["D"] /\ last.f = 0
    /\ Len(neighbors[last.node]) = 2
    /\ Len(last.out) = 2

\* a required key is missing or of the wrong type, headers is no dict, or
\* headers has no "alg"
Malformed(pkt) == pkt.bad # {} \/ pkt.headers.shape # "dict" \/ pkt.headers.alg = ""

\* the fields of the node of the last operation are what they were before it
NodeUntouched ==
    /\ neighbors[last.node] = last.before.nb
    /\ lsdb[last.node] = last.before.db
    /\ seen_lsp_ids[last.node] = last.before.seenl
    /\ seen[last.node] = last.before.seenf
    /\ routing_table[last.node] = last.before.rt

\* C20: a packet that fails validation is dropped by every engine: no
\* field of the node changes, nothing is delivered, nothing is published.
C20_InvalidDropped ==
    (phase = "net" /\ last.op = "recv" /\ Malformed(last.pkt)) =>
        /\ NodeUntouched
        /\ ~last.delivered
        /\ last.out = << >>

\* a hello without headers.alg reached a link-state router and left it
\* untouched
C20_Witness ==
    /\ phase = "net" /\ last.op = "recv" /\ Malformed(last.pkt)
    /\ last.pkt.type = "hello" /\ last.pkt.headers.alg = ""
    /\ algorithm = "link_state"
    /\ NodeUntouched

\* C21: no step takes an element out of the neighbor list, the set of seen
\* advertisement ids or the set of seen packet ids of any node.
C21_SetsOnlyGrow ==
    [][phase = "net" =>
          \A n \in Routers :
              /\ SeqToSet(neighbors[n]) \subseteq SeqToSet(neighbors'[n])
              /\ seen_lsp_ids[n] \subseteq seen_lsp_ids'[n]
              /\ seen[n] \subseteq seen'[n]]_vars

\* a flooding node added a further id to its seen set, or a link-state
\* node added a further id and has a neighbor more than it was configured with
C21_Witness ==
    /\ phase = "net" /\ last.op = "recv"
    /\ \/ /\ last.before.seenf # {}
          /\ Cardinality(seen[last.node]) > Cardinality(last.before.seenf)
       \/ /\ last.before.seenl # {}
          /\ Cardinality(seen_lsp_ids[last.node]) > Cardinality(last.before.seenl)
          /\ Len(neighbors[last.node]) > Len(TopoCfg(algorithm)[last.node])

\* C22: the LSDB of a link-state node changes only in the step in which
\* that node handles an advertisement: hello, hello_ack and data handling,
\* HELLO ticks, LSA ticks and sends leave every LSDB as it is.
C22_LsdbOnlyByAdvertisement ==
    [][LsrEngine =>
          \A n \in Routers :
              lsdb'[n] # lsdb[n] =>
                  /\ last'.op = "recv"
                  /\ last'.node = n
                  /\ last'.pkt.type = AdvertType]_vars

\* a node whose LSDB has rows handled a hello_ack, and its LSDB is as before
C22_Witness ==
    /\ LsrEngine /\ Handled("hello_ack")
    /\ lsdb[last.node] # << >>
    /\ lsdb[last.node] = last.before.db

Transit ==
    /\ Handled("message")
    /\ last.pkt.to \notin {NODE_TO_CHANNEL[last.node], BROADCAST}
    /\ channel_to_node(last.pkt.to) # ""

\* C24: a link-state node that handles a data packet for another node for
\* which its table has an entry publishes the packet, with hops one less,
\* to the channel of the entry's next hop and to nobody else when the new
\* hops is above 0, and publishes nothing otherwise.
C24_ForwardToNextHopOnly ==
    (/\ LsrEngine /\ Transit /\ last.f = 0
     /\ get_next_hop(last.before.rt, channel_to_node(last.pkt.to)) # "")
        => LET nh == get_next_hop(last.before.rt, channel_to_node(last.pkt.to))
           IN IF last.pkt.hops - 1 > 0
              THEN last.out = << [ch |-> NODE_TO_CHANNEL[nh],
                                  pkt |-> [last.pkt EXCEPT !.hops = last.pkt.hops - 1]] >>
              ELSE last.out = << >>

\* a node with two neighbors forwarded a data packet to the next hop alone
C24_Witness ==
    /\ LsrEngine /\ Transit /\ last.f = 0
    /\ Len(neighbors[last.node]) = 2
    /\ Len(last.out) = 1
    /\ last.out[1].pkt.hops = last.pkt.hops - 1

\* C25: a link-state node that handles a data packet whose destination
\* channel maps to no node drops it: nothing is published, nothing is
\* delivered, no field of the node changes.
C25_UnknownDestinationDropped ==
    (LsrEngine /\ Handled("message") /\ last.pkt.to = UnknownChannel)
        => /\ last.out = << >>
           /\ ~last.delivered
           /\ NodeUntouched

\* such a packet reached a node whose table has entries
C25_Witness ==
    /\ LsrEngine /\ Handled("message") /\ last.pkt.to = UnknownChannel
    /\ routing_table[last.node] # {}
    /\ last.out = << >>

\* C26: a flooding node that handles a well-formed packet that is no
\* duplicate, is not for it or the wildcard, and has hops above 1 publishes
\* it, with hops one less, once to every neighbor, the neighbor it came from
\* included.
C26_FloodToEveryNeighbor ==
    (/\ Flooding /\ last.op = "recv" /\ ~Malformed(last.pkt)
     /\ ~last.dup /\ last.f = 0
     /\ last.pkt.to \notin {NODE_TO_CHANNEL[last.node], BROADCAST}
     /\ last.pkt.hops - 1 > 0)
        => last.out = ToAll(ChannelsOf(neighbors[last.node]),
                            [last.pkt EXCEPT !.hops = last.pkt.hops - 1])

\* a packet was flooded back to the router that had published it
C26_Witness ==
    /\ Flooding /\ last.op = "recv" /\ ~Malformed(last.pkt)
    /\ last.via \in Routers
    /\ NODE_TO_CHANNEL[last.via] \in PublishedTo
    /\ Len(last.out) = Len(neighbors[last.node])

C28_OriginatedValid ==
    phase = "net" => \A i \in 1..Len(last.out) : ~Malformed(last.out[i].pkt)

\* C29: with static neighbor lists, once one advertisement was originated
\* and no further LSA tick fires, the network reaches a state with no copy
\* of the advertisement in flight.
C29_FloodingQuiesces ==
    (phase = "flood" /\ count.lsa = 1) ~> (\A n \in Routers : inbox[n] = << >>)

\* the most copies one handler publishes: one per other router
MaxFanout == Cardinality(Routers) - 1

\* an upper bound of the publishes a copy with h hops left can still cause,
\* itself included
Weight(h) == IF h <= 0 THEN 1 ELSE (MaxFanout + 1) ^ h

RECURSIVE QueueWeight(_)
QueueWeight(q) ==
    IF q = << >> THEN 0 ELSE Weight(Head(q).pkt.hops) + QueueWeight(Tail(q))

InFlight == QueueWeight(inbox["A"]) + QueueWeight(inbox["B"]) + QueueWeight(inbox["C"])

\* C30: data forwarding terminates under any routing tables (link state)
\* and in a cyclic topology (flooding): every copy a node publishes when it
\* handles a data packet has one hop less than the packet had and at least
\* one hop left, so every handled packet strictly lowers the bound of the
\* publishes still to come.
C30_ForwardingTerminates ==
    [][(phase = "net" /\ last'.op = "recv" /\ last' # last) =>
          /\ \A i \in 1..Len(last'.out) :
                /\ last'.out[i].pkt.hops = last'.pkt.hops - 1
                /\ last'.out[i].pkt.hops > 0
          /\ InFlight' < InFlight]_vars

\* through tables that point at each other a data packet came back to the
\* router that had originated it
C30_Witness ==
    /\ LinkState /\ last.op = "recv" /\ last.pkt.type = "message"
    /\ last.pkt.from = NODE_TO_CHANNEL[last.node]
    /\ get_next_hop(routing_table[last.node], channel_to_node(last.pkt.to)) = last.via
    /\ get_next_hop(routing_table[last.via], channel_to_node(last.pkt.to)) = last.node

\* every node has run the handler of an advertisement of every other node
\* to its end
AllProcessed == \A n \in Routers : Routers \ {n} \subseteq processed[n]

\* C31: on the static line of link-state routers, once every node has
\* processed an advertisement of every other node, every table has exactly
\* one entry for every other node, with the hop distance as cost and a
\* neighbor on a shortest path as next hop.
C31_TablesConverge ==
    (Scenario1 /\ AllProcessed) =>
        \A n \in Routers : \A d \in Routers \ {n} :
            /\ Cardinality({e \in routing_table[n] : e.destino = d}) = 1
            /\ \A e \in routing_table[n] :
                  e.destino = d =>
                      /\ e.costo = RefDist(graph, n)[d]
                      /\ e.next_hop \in DOMAIN graph[n]
                      /\ RefDist(graph, e.next_hop)[d] = e.costo - 1

\* all three routers have advertised and every advertisement has reached
\* the two others
C31_Witness ==
    /\ Scenario1 /\ AllProcessed
    /\ count.lsa = Cardinality(Routers)
    /\ HasRoute("C", "A", "B", 2)

\* C32: with advertisements of link-state routers only, no node holds an
\* LSDB row for itself, and every next hop of every table is a neighbor of
\* the node.
C32_NoOwnRow ==
    Scenario1 =>
        \A n \in Routers :
            /\ n \notin DOMAIN lsdb[n]
            /\ \A e \in routing_table[n] : e.next_hop \in SeqToSet(neighbors[n])

\* a node accepted an advertisement that a relay, not the originator, had
\* published to it, and has a table
C32_Witness ==
    /\ Scenario1 /\ Accepted /\ last.recomputed
    /\ last.via \in Routers /\ last.via # last.pkt.originator
    /\ routing_table[last.node] # {}

\* C33: the routing table of a link-state node changes only in the handler
\* of an advertisement that is accepted; hello, hello_ack, ticks, data
\* packets and sends leave it as it is.
C33_TableOnlyByAdvertisement ==
    [][LsrEngine =>
          \A n \in Routers :
              routing_table'[n] # routing_table[n] =>
                  /\ last'.op = "recv" /\ last'.node = n
                  /\ last'.pkt.type = AdvertType
                  /\ ~last'.dup /\ last'.pkt.originator # ""
                  /\ last'.recomputed]_vars

\* a hello brought a new neighbor and the table is not the one a
\* recomputation would give now
C33_Witness ==
    /\ LsrEngine /\ Handled("hello")
    /\ neighbors[last.node] # last.before.nb
    /\ routing_table[last.node] = last.before.rt
    /\ routing_table[last.node] # routing_table_for(WholeGraph(last.node), last.node)

\* the timer of kind k is pending, or its callback is running
TimerLive(k) ==
    \/ timer_pc[k] = "waiting" /\ timer[k] = "armed"
    \/ timer_pc[k] \in {"emit", "schedule", "raised", "arm"}

C35_IdConsumedWithoutOriginator ==
    (phase = "forged" /\ last.op = "recv") =>
        /\ (last.pkt.originator = "" /\ last.pkt.headers.id \notin last.before.seenl) =>
              /\ last.pkt.headers.id \in seen_lsp_ids[last.node]
              /\ lsdb[last.node] = last.before.db
              /\ routing_table[last.node] = last.before.rt
              /\ last.out = << >>
        /\ (last.pkt.originator # "" /\ last.pkt.headers.id \in last.before.seenl) =>
              /\ last.dup
              /\ lsdb[last.node] = last.before.db
              /\ last.out = << >>

\* an advertisement with an originator was dropped as a duplicate by a node
\* whose LSDB has no row at all: its id had been taken by one without
\* originator
C35_Witness ==
    /\ phase = "forged" /\ last.op = "recv"
    /\ last.pkt.originator # "" /\ last.dup
    /\ last.pkt.headers.id \in last.before.seenl
    /\ lsdb[last.node] = << >>

\* C36: a send of a link-state engine with an entry for the destination
\* publishes one copy with hops one less to the next hop, and nothing when
\* the caller gave hops = 1; without an entry it publishes the packet with
\* the hops the caller gave to every neighbor.
C36_SendTtlByPath ==
    (LsrEngine /\ last.op = "send" /\ last.f = 0) =>
        LET nh == get_next_hop(last.before.rt, SendDst)
        IN IF nh # ""
           THEN IF last.pkt.hops - 1 > 0
                THEN last.out = << [ch |-> NODE_TO_CHANNEL[nh],
                                    pkt |-> [last.pkt EXCEPT !.hops = last.pkt.hops - 1]] >>
                ELSE last.out = << >>
           ELSE last.out = ToAll(ChannelsOf(neighbors[last.node]), last.pkt)

\* a send with hops = 1 along an entry of the table published nothing
C36_Witness ==
    /\ LsrEngine /\ last.op = "send" /\ last.f = 0
    /\ get_next_hop(last.before.rt, SendDst) # ""
    /\ last.pkt.hops = 1
    /\ last.out = << >>

====
